---------------------------- MODULE Spec2Model ----------------------------
(***************************************************************************)
(* zetacuentas: statement extraction (procesar_estados_itau.py,            *)
(* procesar_movimiento_brou.py, generar_excels.py) and reconciliation      *)
(* against the reference ledger (filtrar_movimientos_registrados.py).      *)
(*                                                                         *)
(* Encoding of Python/pandas values:                                       *)
(*   text      a sequence of one-character strings                         *)
(*   number    an integer count of thousandths (1234.56 is 1234560)        *)
(*   date      <<year, month, day>>; None / NaT is the empty tuple <<>>    *)
(*   cell      [t, s, n, d]: t is "nan", "str", "num" or "dt"              *)
(***************************************************************************)
EXTENDS Integers, Sequences, FiniteSets, TLC

(***************************************************************************)
(* Bounds of the model.                                                    *)
(***************************************************************************)
MaxRecs == 2

MaxKeys == 2

MaxRef == 2

MaxFiles == 3

MaxPrompts == 2

MaxCols == 3

\* Characters of a description text
MaxText == 4

\* Rows below the header of a sheet
MaxRows == 2

VARIABLES
    \* filter_dataframe applied to arbitrary inputs
    records, keyset, result, again, fpc,
    \* process_files: the reference ledger, the account files, the loop
    ledger, orig, files, keys_by_account, cur, removed_by, total_removed, rpc,
    \* the three main(): the program run, its input files, where it is, the
    \* batches collected, the files written, the lru_cache, the requests sent
    \* to the rate service, the rate resolutions made, the one under way, the
    \* exception that ended the run, what the readers make of each input file
    prog, archivos, pc, idx, registros, outputs, cache, fetches, resolves, pend, err,
    reads,
    \* the column search on arbitrary header rows: the header cells, the
    \* program whose search ran, the columns it chose
    header_cells, searched, col_roles,
    \* parse_importe on arbitrary cells: the cell, the program whose
    \* parse_importe ran, the float it returned
    importe_cell, importe_by, importe_out,
    \* normalize_description applied twice: the value, the first and the second
    \* result, how far the two calls got
    desc_cell, desc_once, desc_twice, dpc,
    \* the row loop of the two extractions on arbitrary sheets: the sheet read,
    \* the program whose extraction ran, what it returned
    sheet, extractor, emitted

fvars == <<records, keyset, result, again, fpc>>

rvars == <<ledger, orig, files, keys_by_account, cur, removed_by, total_removed, rpc>>

pvars ==
    <<prog, archivos, pc, idx, registros, outputs, cache, fetches, resolves, pend, err, reads>>

cvars == <<header_cells, searched, col_roles>>

uvars ==
    <<importe_cell, importe_by, importe_out, desc_cell, desc_once, desc_twice, dpc,
      sheet, extractor, emitted>>

vars == <<fvars, rvars, pvars, cvars, uvars>>

(***************************************************************************)
(* Text helpers.                                                           *)
(***************************************************************************)
Digits == {"0", "1", "2", "3", "4", "5", "6", "7", "8", "9"}

DigitVal(c) ==
    CASE c = "0" -> 0 [] c = "1" -> 1 [] c = "2" -> 2 [] c = "3" -> 3
      [] c = "4" -> 4 [] c = "5" -> 5 [] c = "6" -> 6 [] c = "7" -> 7
      [] c = "8" -> 8 [] c = "9" -> 9

DigitChar(n) ==
    CASE n = 0 -> "0" [] n = 1 -> "1" [] n = 2 -> "2" [] n = 3 -> "3"
      [] n = 4 -> "4" [] n = 5 -> "5" [] n = 6 -> "6" [] n = 7 -> "7"
      [] n = 8 -> "8" [] n = 9 -> "9"

\* str.isspace for the characters of the model: space and no-break space.
IsSpace(c) == c \in {" ", "NBSP"}

RECURSIVE LStrip(_)
LStrip(s) == IF s # <<>> /\ IsSpace(Head(s)) THEN LStrip(Tail(s)) ELSE s

RECURSIVE RStrip(_)
RStrip(s) ==
    IF s # <<>> /\ IsSpace(s[Len(s)]) THEN RStrip(SubSeq(s, 1, Len(s) - 1)) ELSE s

\* str.strip()
Strip(s) == RStrip(LStrip(s))

\* k in s
Contains(s, k) ==
    \E i \in 1..(Len(s) - Len(k) + 1) : SubSeq(s, i, i + Len(k) - 1) = k

\* s.startswith(k)
StartsWith(s, k) == Len(s) >= Len(k) /\ SubSeq(s, 1, Len(k)) = k

RECURSIVE Remove(_, _)
\* s.replace(c, "") for a one-character c
Remove(s, c) ==
    IF s = <<>> THEN <<>>
    ELSE IF Head(s) = c THEN Remove(Tail(s), c)
    ELSE <<Head(s)>> \o Remove(Tail(s), c)

RECURSIVE Replace(_, _, _)
\* s.replace(c, r) for one-character c and r
Replace(s, c, r) ==
    IF s = <<>> THEN <<>>
    ELSE <<IF Head(s) = c THEN r ELSE Head(s)>> \o Replace(Tail(s), c, r)

AllDigits(s) == s # <<>> /\ \A i \in 1..Len(s) : s[i] \in Digits

RECURSIVE DigitsVal(_)
\* int(s) of a digit string
DigitsVal(s) ==
    IF s = <<>> THEN 0
    ELSE 10 * DigitsVal(SubSeq(s, 1, Len(s) - 1)) + DigitVal(s[Len(s)])

RECURSIVE NatStr(_)
\* str(n) of a natural number
NatStr(n) == IF n < 10 THEN <<DigitChar(n)>> ELSE NatStr(n \div 10) \o <<DigitChar(n % 10)>>

\* "%02d" % n and "%04d" % n
Pad2(n) == IF n < 10 THEN <<"0">> \o NatStr(n) ELSE NatStr(n)

Pad4(n) ==
    IF n < 10 THEN <<"0", "0", "0">> \o NatStr(n)
    ELSE IF n < 100 THEN <<"0", "0">> \o NatStr(n)
    ELSE IF n < 1000 THEN <<"0">> \o NatStr(n)
    ELSE NatStr(n)

\* Positions of character c in s, in increasing order.
RECURSIVE PositionsFrom(_, _, _)
PositionsFrom(s, c, i) ==
    IF i > Len(s) THEN <<>>
    ELSE (IF s[i] = c THEN <<i>> ELSE <<>>) \o PositionsFrom(s, c, i + 1)

\* s.split(c) when s holds exactly two c: the three fields, else <<>>.
Split3(s, c) ==
    LET cut(p) == IF Len(p) # 2 THEN <<>>
                  ELSE << SubSeq(s, 1, p[1] - 1),
                          SubSeq(s, p[1] + 1, p[2] - 1),
                          SubSeq(s, p[2] + 1, Len(s)) >>
    IN  cut(PositionsFrom(s, c, 1))

(***************************************************************************)
(* Cells of a DataFrame.                                                   *)
(***************************************************************************)
NaN == [t |-> "nan", s |-> <<>>, n |-> 0, d |-> <<>>]

Str(s) == [t |-> "str", s |-> s, n |-> 0, d |-> <<>>]

Num(n) == [t |-> "num", s |-> <<>>, n |-> n, d |-> <<>>]

Dt(d) == [t |-> "dt", s |-> <<>>, n |-> 0, d |-> d]

\* pd.isna(value)
isna(v) == v.t = "nan"

\* The fraction digits of str(float): thousandths without trailing zeros.
FracStr(f) ==
    IF f % 100 = 0 THEN <<DigitChar(f \div 100)>>
    ELSE IF f % 10 = 0 THEN <<DigitChar(f \div 100), DigitChar((f \div 10) % 10)>>
    ELSE <<DigitChar(f \div 100), DigitChar((f \div 10) % 10), DigitChar(f % 10)>>

\* str(value) of a number cell: an integral value is an int ("100"), any
\* other a float ("12.5"); n counts thousandths.
NumStr(n) ==
    LET a == IF n < 0 THEN -n ELSE n
        body == IF a % 1000 = 0 THEN NatStr(a \div 1000)
                ELSE NatStr(a \div 1000) \o <<".">> \o FracStr(a % 1000)
    IN  IF n < 0 THEN <<"-">> \o body ELSE body

(***************************************************************************)
(* Calendar.                                                               *)
(***************************************************************************)
IsLeap(y) == (y % 4 = 0 /\ y % 100 # 0) \/ y % 400 = 0

DaysInMonth(y, m) ==
    IF m = 2 THEN (IF IsLeap(y) THEN 29 ELSE 28)
    ELSE IF m \in {4, 6, 9, 11} THEN 30 ELSE 31

ValidDate(y, m, d) == y >= 1 /\ m \in 1..12 /\ d >= 1 /\ d <= DaysInMonth(y, m)

\* The date of three numbers; <<>> is the ValueError of a day out of range.
DateOf(y, m, d) == IF ValidDate(y, m, d) THEN <<y, m, d>> ELSE <<>>

\* The first value, or the second when the first is <<>>.
OrElse(a, b) == IF a # <<>> THEN a ELSE b

\* datetime.strptime(s, "%d/%m/%y"): two-digit years 00-68 are 20xx.
strptime_dmy2(s) ==
    LET century(yy) == IF yy < 69 THEN 2000 + yy ELSE 1900 + yy
        date(f) ==
            IF f = <<>> THEN <<>>
            ELSE IF ~(AllDigits(f[1]) /\ AllDigits(f[2]) /\ AllDigits(f[3])) THEN <<>>
            ELSE IF Len(f[1]) > 2 \/ Len(f[2]) > 2 \/ Len(f[3]) # 2 THEN <<>>
            ELSE DateOf(century(DigitsVal(f[3])), DigitsVal(f[2]), DigitsVal(f[1]))
    IN  date(Split3(s, "/"))

\* datetime.strptime(s, "%d/%m/%Y")
strptime_dmy4(s) ==
    LET date(f) ==
            IF f = <<>> THEN <<>>
            ELSE IF ~(AllDigits(f[1]) /\ AllDigits(f[2]) /\ AllDigits(f[3])) THEN <<>>
            ELSE IF Len(f[1]) > 2 \/ Len(f[2]) > 2 \/ Len(f[3]) # 4 THEN <<>>
            ELSE DateOf(DigitsVal(f[3]), DigitsVal(f[2]), DigitsVal(f[1]))
    IN  date(Split3(s, "/"))

\* datetime.strptime(s, "%Y-%m-%d")
strptime_ymd(s) ==
    LET date(f) ==
            IF f = <<>> THEN <<>>
            ELSE IF ~(AllDigits(f[1]) /\ AllDigits(f[2]) /\ AllDigits(f[3])) THEN <<>>
            ELSE IF Len(f[1]) # 4 \/ Len(f[2]) > 2 \/ Len(f[3]) > 2 THEN <<>>
            ELSE DateOf(DigitsVal(f[1]), DigitsVal(f[2]), DigitsVal(f[3]))
    IN  date(Split3(s, "-"))

\* date.strftime("%d/%m/%Y")
strftime_dmy(dt) == Pad2(dt[3]) \o <<"/">> \o Pad2(dt[2]) \o <<"/">> \o Pad4(dt[1])


(***************************************************************************)
(* Letters: case mapping and Unicode decomposition for the characters of   *)
(* the model.                                                              *)
(***************************************************************************)
LowerAlpha ==
    << "a", "b", "c", "d", "e", "f", "g", "h", "i", "j", "k", "l", "m", "n",
       "o", "p", "q", "r", "s", "t", "u", "v", "w", "x", "y", "z",
       "á", "é", "í", "ó", "ú", "ñ" >>

UpperAlpha ==
    << "A", "B", "C", "D", "E", "F", "G", "H", "I", "J", "K", "L", "M", "N",
       "O", "P", "Q", "R", "S", "T", "U", "V", "W", "X", "Y", "Z",
       "Á", "É", "Í", "Ó", "Ú", "Ñ" >>

UpperChar(c) ==
    IF \E i \in 1..Len(LowerAlpha) : LowerAlpha[i] = c
    THEN UpperAlpha[CHOOSE i \in 1..Len(LowerAlpha) : LowerAlpha[i] = c]
    ELSE c

LowerChar(c) ==
    IF \E i \in 1..Len(UpperAlpha) : UpperAlpha[i] = c
    THEN LowerAlpha[CHOOSE i \in 1..Len(UpperAlpha) : UpperAlpha[i] = c]
    ELSE c

\* str.upper() and str.lower()
Upper(s) == [i \in 1..Len(s) |-> UpperChar(s[i])]

Lower(s) == [i \in 1..Len(s) |-> LowerChar(s[i])]

\* unicodedata.normalize("NFKD", c) of one character: accented letters split
\* into the base letter and a combining mark, the no-break space becomes a
\* space, the spacing diaeresis a space and a combining mark, the ligature
\* its two letters.
DecomposeChar(c) ==
    CASE c = "á" -> <<"a", "ACUTE">> [] c = "é" -> <<"e", "ACUTE">>
      [] c = "í" -> <<"i", "ACUTE">> [] c = "ó" -> <<"o", "ACUTE">>
      [] c = "ú" -> <<"u", "ACUTE">> [] c = "ñ" -> <<"n", "TILDE">>
      [] c = "Á" -> <<"A", "ACUTE">> [] c = "É" -> <<"E", "ACUTE">>
      [] c = "Í" -> <<"I", "ACUTE">> [] c = "Ó" -> <<"O", "ACUTE">>
      [] c = "Ú" -> <<"U", "ACUTE">> [] c = "Ñ" -> <<"N", "TILDE">>
      [] c = "NBSP" -> <<" ">>
      [] c = "¨" -> <<" ", "DIAERESIS">>
      [] c = "FI_LIGATURE" -> <<"f", "i">>
      [] OTHER -> <<c>>

RECURSIVE NFKD(_)
NFKD(s) == IF s = <<>> THEN <<>> ELSE DecomposeChar(Head(s)) \o NFKD(Tail(s))

\* unicodedata.combining(c) != 0
combining(c) == c \in {"ACUTE", "TILDE", "DIAERESIS"}

RECURSIVE StripCombining(_)
StripCombining(s) ==
    IF s = <<>> THEN <<>>
    ELSE IF combining(Head(s)) THEN StripCombining(Tail(s))
    ELSE <<Head(s)>> \o StripCombining(Tail(s))

RECURSIVE SplitWords(_, _)
\* str.split(): the maximal runs of non-space characters; word is the one
\* being read.
SplitWords(s, word) ==
    IF s = <<>> THEN (IF word = <<>> THEN <<>> ELSE <<word>>)
    ELSE IF IsSpace(Head(s))
         THEN (IF word = <<>> THEN <<>> ELSE <<word>>) \o SplitWords(Tail(s), <<>>)
         ELSE SplitWords(Tail(s), word \o <<Head(s)>>)

RECURSIVE JoinSpace(_)
\* " ".join(words)
JoinSpace(ws) ==
    IF ws = <<>> THEN <<>>
    ELSE IF Len(ws) = 1 THEN ws[1]
    ELSE ws[1] \o <<" ">> \o JoinSpace(Tail(ws))

\* str(value) of a cell.
CellStr(v) ==
    CASE v.t = "str" -> v.s
      [] v.t = "num" -> NumStr(v.n)
      [] v.t = "nan" -> <<"n", "a", "n">>
      [] v.t = "dt" ->
           Pad4(v.d[1]) \o <<"-">> \o Pad2(v.d[2]) \o <<"-">> \o Pad2(v.d[3])
             \o <<" ", "0", "0", ":", "0", "0", ":", "0", "0">>

(***************************************************************************)
(* filtrar_movimientos_registrados.py                                      *)
(***************************************************************************)

\* pd.to_datetime(text, dayfirst=True, errors="coerce") on the date layouts
\* the statements and the ledger use; any other text is NaT.
to_datetime_text(s) ==
    LET parse(t) == OrElse(strptime_dmy4(t), OrElse(strptime_dmy2(t), strptime_ymd(t)))
    IN  parse(Strip(s))

\* A number is read as nanoseconds since the epoch: 1970-01-01.
normalize_date(value) ==
    IF isna(value) THEN <<>>
    ELSE CASE value.t = "dt" -> value.d
           [] value.t = "num" -> <<1970, 1, 1>>
           [] value.t = "str" -> to_datetime_text(value.s)

\* normalize_description with the blanks collapsed before the decomposition
\* instead of after it.
normalize_description_collapsing_first(value) ==
    IF isna(value) THEN <<>>
    ELSE LET canon(text) ==
                 IF text = <<>> THEN <<>>
                 ELSE StripCombining(NFKD(JoinSpace(SplitWords(Upper(text), <<>>))))
         IN  canon(Strip(CellStr(value)))

normalize_description(value) ==
    IF isna(value) THEN <<>>
    ELSE LET canon(text) ==
                 IF text = <<>> THEN <<>>
                 ELSE JoinSpace(SplitWords(Upper(StripCombining(NFKD(text))), <<>>))
         IN  canon(Strip(CellStr(value)))

\* round(x, 2) on thousandths: to the nearest multiple of 10, a tie to the
\* even hundredth.
round2(n) ==
    LET a == IF n < 0 THEN -n ELSE n
        q == a \div 10
        r == a % 10
        up == r > 5 \/ (r = 5 /\ q % 2 = 1)
        m == 10 * (IF up THEN q + 1 ELSE q)
    IN  IF n < 0 THEN -m ELSE m

\* float(text): digits with at most one point and at least one digit, an
\* optional sign, surrounding blanks ignored; <<>> is ValueError. The result
\* is <<thousandths>>, digits past the third dropped.
PyFloat(s) ==
    LET signed(neg, mag) == IF neg THEN -mag ELSE mag
        number(neg, ip, fp) ==
            IF /\ ip \o fp # <<>>
               /\ \A i \in 1..Len(ip) : ip[i] \in Digits
               /\ \A i \in 1..Len(fp) : fp[i] \in Digits
            THEN <<signed(neg, 1000 * DigitsVal(ip)
                               + DigitsVal(SubSeq(fp \o <<"0", "0", "0">>, 1, 3)))>>
            ELSE <<>>
        split(neg, u, p) ==
            IF Len(p) > 1 THEN <<>>
            ELSE IF p = <<>> THEN number(neg, u, <<>>)
            ELSE number(neg, SubSeq(u, 1, p[1] - 1), SubSeq(u, p[1] + 1, Len(u)))
        unsigned(neg, u) == split(neg, u, PositionsFrom(u, ".", 1))
        float(t) == unsigned(t # <<>> /\ Head(t) = "-",
                             IF t # <<>> /\ Head(t) \in {"-", "+"} THEN Tail(t) ELSE t)
    IN  float(Strip(s))

normalize_amount(value) ==
    IF isna(value) THEN 0
    ELSE CASE value.t = "num" -> round2(value.n)
           [] value.t = "str" ->
                LET rounded(f) == IF f = <<>> THEN 0 ELSE round2(f[1])
                IN  rounded(PyFloat(value.s))
           [] value.t = "dt" -> 0

\* .fillna(0).astype(float) of a Creditos / Debitos cell of a written table.
fillna0(v) == IF v.t = "num" THEN v.n ELSE 0

\* add_normalized_columns without the final .round(2).
add_normalized_columns_unrounded(row) ==
    << normalize_date(row.Fecha),
       normalize_description(row.Descripcion),
       fillna0(row.Creditos) - fillna0(row.Debitos) >>

\* The three normalised columns of one source row.
add_normalized_columns(row) ==
    << normalize_date(row.Fecha),
       normalize_description(row.Descripcion),
       round2(fillna0(row.Creditos) - fillna0(row.Debitos)) >>

\* The mask of filter_dataframe: TRUE where the row is kept.
mask(df, keys) == [i \in 1..Len(df) |-> add_normalized_columns(df[i]) \notin keys]

RECURSIVE SelectRows_reversed(_, _, _)
\* The rows whose mask is TRUE, last first.
SelectRows_reversed(df, m, i) ==
    IF i > Len(df) THEN <<>>
    ELSE SelectRows_reversed(df, m, i + 1) \o (IF m[i] THEN <<df[i]>> ELSE <<>>)

RECURSIVE SelectRows(_, _, _)
\* df.loc[mask]: the rows whose mask is TRUE, in order.
SelectRows(df, m, i) ==
    IF i > Len(df) THEN <<>>
    ELSE (IF m[i] THEN <<df[i]>> ELSE <<>>) \o SelectRows(df, m, i + 1)

\* filter_dataframe counting the rows of the mask instead of those outside it.
filter_dataframe_count_kept(df, keys) ==
    LET split(m) == [ filtered |-> SelectRows(df, m, 1),
                      removed |-> Cardinality({i \in 1..Len(df) : m[i]}) ]
    IN  IF df = <<>> THEN [filtered |-> df, removed |-> 0] ELSE split(mask(df, keys))

\* (filtered, removed)
filter_dataframe(df, keys) ==
    LET split(m) == [ filtered |-> SelectRows(df, m, 1),
                      removed |-> Cardinality({i \in 1..Len(df) : ~m[i]}) ]
    IN  IF df = <<>> THEN [filtered |-> df, removed |-> 0] ELSE split(mask(df, keys))

\* build_keyset without its condition on Fecha_norm and Descripcion_norm.
build_keyset_unguarded(rows) ==
    { <<rows[i].Fecha_norm, rows[i].Descripcion_norm, rows[i].Importe_norm>> :
        i \in 1..Len(rows) }

\* The keys of the reference rows whose two normalised text fields are truthy.
build_keyset(rows) ==
    { <<rows[i].Fecha_norm, rows[i].Descripcion_norm, rows[i].Importe_norm>> :
        i \in {j \in 1..Len(rows) :
                 rows[j].Fecha_norm # <<>> /\ rows[j].Descripcion_norm # <<>>} }


\* cuenta -> keyset, from the rows of the ledger that miss none of the four
\* columns, grouped by Cuenta.
load_comprobante_keys(rows) ==
    LET groupby(norm) ==
            [c \in {norm[i].Cuenta : i \in 1..Len(norm)} |->
                build_keyset(SelectSeq(norm, LAMBDA r : r.Cuenta = c))]
        normalized(df) ==
            groupby([i \in 1..Len(df) |->
                       [ Cuenta |-> df[i].Cuenta,
                         Fecha_norm |-> normalize_date(df[i].Fecha),
                         Descripcion_norm |-> normalize_description(df[i].Descripcion),
                         Importe_norm |-> normalize_amount(df[i].Importe) ]])
    IN  normalized(SelectSeq(rows, LAMBDA r :
                      ~isna(r.Fecha) /\ ~isna(r.Descripcion) /\ r.Cuenta # "nan"
                      /\ ~isna(r.Importe)))

\* The accounts of ACCOUNT_FILES, in the order of the dictionary.
ACCOUNT_FILES == <<"Crédito Itaú $", "Débito BROU $">>

AccountNames == {ACCOUNT_FILES[i] : i \in 1..Len(ACCOUNT_FILES)}

\* A lookup that ignores the account.
keys_of_any_account(kba, cuenta) == UNION {kba[c] : c \in DOMAIN kba}

\* keys_by_account.get(cuenta, set())
keys_of(kba, cuenta) == IF cuenta \in DOMAIN kba THEN kba[cuenta] ELSE {}

(***************************************************************************)
(* procesar_estados_itau.py: helpers                                       *)
(***************************************************************************)
K_fecha == <<"f", "e", "c", "h", "a">>

K_descripcion == <<"d", "e", "s", "c", "r", "i", "p", "c", "i", "o", "n">>

K_descripcion_acento == <<"d", "e", "s", "c", "r", "i", "p", "c", "i", "ó", "n">>

K_detalle == <<"d", "e", "t", "a", "l", "l", "e">>

K_concepto == <<"c", "o", "n", "c", "e", "p", "t", "o">>

K_importe == <<"i", "m", "p", "o", "r", "t", "e">>

K_monto == <<"m", "o", "n", "t", "o">>

K_debito == <<"d", "e", "b", "i", "t", "o">>

K_debito_acento == <<"d", "é", "b", "i", "t", "o">>

K_credito == <<"c", "r", "e", "d", "i", "t", "o">>

K_credito_acento == <<"c", "r", "é", "d", "i", "t", "o">>

K_SALDO_ANTERIOR ==
    <<"S", "A", "L", "D", "O", " ", "A", "N", "T", "E", "R", "I", "O", "R">>

K_SALDO_FINAL == <<"S", "A", "L", "D", "O", " ", "F", "I", "N", "A", "L">>

K_DOLAR_acento == <<"D", "Ó", "L", "A", "R">>

K_DOLAR == <<"D", "O", "L", "A", "R">>

K_USD == <<"U", "S", "D">>

\* s * float(text) of parse_importe: <<>> when float() raises.
SignedFloat(sign, s) ==
    LET times(f) == IF f = <<>> THEN <<>> ELSE <<sign * f[1]>>
    IN  times(PyFloat(s))

parse_importe_itau(value) ==
    LET number(f) == IF f = <<>> THEN 0 ELSE f[1]
        parse(s) ==
            IF s = <<>> THEN 0
            ELSE number(SignedFloat(IF StartsWith(s, <<"-">>) THEN -1 ELSE 1,
                                    Remove(s, "-")))
    IN  IF isna(value) THEN 0 ELSE parse(Strip(CellStr(value)))

\* The date of the first format that parses t, tried in the order %d/%m/%y,
\* %d/%m/%Y and, withIso, %Y-%m-%d; <<>> when none does.
FirstFormat(t, withIso) ==
    OrElse(strptime_dmy2(t),
           OrElse(strptime_dmy4(t), IF withIso THEN strptime_ymd(t) ELSE <<>>))

\* dt.strftime("%d/%m/%Y") of the date parsed, the text itself when none was.
FormattedOr(dt, fecha_str) == IF dt # <<>> THEN strftime_dmy(dt) ELSE fecha_str

parse_fecha_texto_itau(fecha_val) ==
    LET parse(fecha_str) ==
            IF fecha_str = <<>> THEN <<>>
            ELSE FormattedOr(FirstFormat(fecha_str, TRUE), fecha_str)
    IN  IF fecha_val.t = "dt" THEN strftime_dmy(fecha_val.d)
        ELSE parse(Strip(CellStr(fecha_val)))

Min(a, b) == IF a < b THEN a ELSE b

\* The least and the greatest of a non-empty set of indices.
First(S) == CHOOSE i \in S : \A j \in S : i <= j

Last(S) == CHOOSE i \in S : \A j \in S : i >= j

\* The owners of OWNER_CODES in the order of the dictionary, with their codes.
OWNER_CODES ==
    << [owner |-> "Euge", codes |-> {<<"1", "1", "7", "1", "5", "6", "4">>}],
       [owner |-> "Gonza", codes |-> {<<"1", "0", "6", "4", "6", "0", "5">>,
                                      <<"1", "0", "6", "4", "5", "9", "7">>}] >>

\* The first owner one of whose codes occurs in text; "" when none does.
OwnerIn(text) ==
    LET owner(hit) == IF hit = {} THEN "" ELSE OWNER_CODES[First(hit)].owner
    IN  owner({i \in 1..Len(OWNER_CODES) :
                 \E code \in OWNER_CODES[i].codes : Contains(text, code)})

\* The cells of a grid, row by row.
RECURSIVE Ravel(_)
Ravel(grid) == IF grid = <<>> THEN <<>> ELSE Head(grid) \o Ravel(Tail(grid))

\* The grid is read with dtype=str and NaN filled with "".
detectar_titular_archivo(name, grid) ==
    LET found(owners) == IF owners = <<>> THEN "Desconocido" ELSE owners[1]
        in_cells(cells) ==
            found(SelectSeq([i \in 1..Len(cells) |->
                                IF isna(cells[i]) THEN "" ELSE OwnerIn(CellStr(cells[i]))],
                            LAMBDA o : o # ""))
        by_name(owner) == IF owner # "" THEN owner ELSE in_cells(Ravel(grid))
    IN  by_name(OwnerIn(name))

\* df.iloc[4, 5], "" when the grid has no such cell.
detectar_moneda(grid) ==
    LET moneda(val_str) ==
            IF Contains(val_str, K_DOLAR_acento) \/ Contains(val_str, K_DOLAR)
               \/ Contains(val_str, K_USD)
            THEN "DOLARES" ELSE "PESOS"
    IN  moneda(IF Len(grid) >= 5 /\ Len(grid[5]) >= 6
               THEN Upper(CellStr(grid[5][6])) ELSE <<>>)

\* The 1-based index of the first row with a text cell containing "fecha";
\* 0 is None.
encontrar_fila_header(df_raw) ==
    LET idx_of(hit) == IF hit = {} THEN 0 ELSE First(hit)
    IN  idx_of({i \in 1..Len(df_raw) :
                  \E j \in 1..Len(df_raw[i]) :
                      /\ df_raw[i][j].t = "str"
                      /\ Contains(Lower(Strip(df_raw[i][j].s)), K_fecha)})

(***************************************************************************)
(* Column roles.  col_map is a dictionary keyed by the header cells: a     *)
(* label that occurs twice is one key, at the place of its first           *)
(* occurrence.  A role is the label chosen for it; NoCol is None.          *)
(***************************************************************************)
NoCol == [t |-> "none", s |-> <<>>, n |-> 0, d |-> <<>>]

\* The keys of col_map, in insertion order.
RECURSIVE DictKeys(_, _)
DictKeys(headers, seen) ==
    IF headers = <<>> THEN <<>>
    ELSE IF Head(headers) \in seen THEN DictKeys(Tail(headers), seen)
    ELSE <<Head(headers)>> \o DictKeys(Tail(headers), seen \cup {Head(headers)})

\* col_map[col]
LowLabel(col) == Lower(Strip(CellStr(col)))

ContainsAny(low, keywords) == \E k \in keywords : Contains(low, k)

\* next((col for col, low in col_map.items() if ...), None)
FirstKey(keys, keywords) ==
    LET col(hit) == IF hit = {} THEN NoCol ELSE keys[First(hit)]
    IN  col({i \in 1..Len(keys) : ContainsAny(LowLabel(keys[i]), keywords)})

\* A loop over col_map.items() that assigns on each hit and never breaks.
LastKey(keys, keywords) ==
    LET col(hit) == IF hit = {} THEN NoCol ELSE keys[Last(hit)]
    IN  col({i \in 1..Len(keys) : ContainsAny(LowLabel(keys[i]), keywords)})

KW_desc == {K_descripcion, K_descripcion_acento, K_detalle, K_concepto}

KW_debito == {K_debito, K_debito_acento}

KW_credito == {K_credito, K_credito_acento}

\* The columns of extraer_movimientos_desde_archivo.
columnas_itau(headers) ==
    LET roles(keys) ==
            [ fecha |-> FirstKey(keys, {K_fecha}),
              desc |-> FirstKey(keys, KW_desc),
              importe |-> FirstKey(keys, {K_importe}),
              debito |-> FirstKey(keys, KW_debito),
              credito |-> FirstKey(keys, KW_credito) ]
    IN  roles(DictKeys(headers, {}))

\* The columns of extraer_movimientos.
columnas_brou(headers) ==
    LET roles(keys) ==
            [ fecha |-> FirstKey(keys, {K_fecha}),
              desc |-> FirstKey(keys, KW_desc),
              importe |-> LastKey(keys, {K_importe, K_monto}),
              debito |-> LastKey(keys, KW_debito),
              credito |-> LastKey(keys, KW_credito) ]
    IN  roles(DictKeys(headers, {}))

\* The two checks after the column search; "" when both pass.
columnas_error(cols) ==
    IF cols.fecha = NoCol \/ cols.desc = NoCol THEN "ColumnsNotFound"
    ELSE IF cols.importe = NoCol /\ ~(cols.debito # NoCol /\ cols.credito # NoCol)
    THEN "ColumnsNotFound"
    ELSE ""

\* row.get(col, default) for a label that heads one column; a row shorter
\* than the header reads as NaN.
RowGet(row, headers, col, default) ==
    LET cell(i) == IF i <= Len(row) THEN row[i] ELSE NaN
        get(hit) == IF hit = {} THEN default ELSE cell(First(hit))
    IN  get({i \in 1..Len(headers) : headers[i] = col})

Registro(f, d, c, b) == [Fecha |-> f, Descripcion |-> d, Creditos |-> c, Debitos |-> b]

\* The body of the loop over df.iterrows(): <<record>>, or <<>> when the row
\* is skipped.
fila_itau(row, headers, cols) ==
    LET desc_of(desc_val) == IF ~isna(desc_val) THEN Strip(CellStr(desc_val)) ELSE <<>>
        emit(fecha_txt, desc_txt, desc_upper, creditos, debitos) ==
            IF fecha_txt = <<>> THEN <<>>
            ELSE IF Contains(desc_upper, K_SALDO_ANTERIOR)
                    \/ Contains(desc_upper, K_SALDO_FINAL)
            THEN <<>>
            ELSE IF creditos = 0 /\ debitos = 0 /\ desc_txt = <<>> THEN <<>>
            ELSE <<Registro(fecha_txt, desc_txt, creditos, debitos)>>
        amounts(fecha_txt, desc_txt, importe) ==
            emit(fecha_txt, desc_txt, Upper(desc_txt),
                 IF cols.importe # NoCol
                 THEN (IF importe < 0 THEN -importe ELSE 0)
                 ELSE (IF cols.credito # NoCol
                       THEN parse_importe_itau(RowGet(row, headers, cols.credito, Num(0)))
                       ELSE 0),
                 IF cols.importe # NoCol
                 THEN (IF importe > 0 THEN importe ELSE 0)
                 ELSE (IF cols.debito # NoCol
                       THEN parse_importe_itau(RowGet(row, headers, cols.debito, Num(0)))
                       ELSE 0))
    IN  amounts(parse_fecha_texto_itau(RowGet(row, headers, cols.fecha, NaN)),
                desc_of(RowGet(row, headers, cols.desc, Str(<<>>))),
                parse_importe_itau(RowGet(row, headers, cols.importe, Num(0))))

RECURSIVE filas_itau(_, _, _)
filas_itau(rows, headers, cols) ==
    IF rows = <<>> THEN <<>>
    ELSE fila_itau(Head(rows), headers, cols) \o filas_itau(Tail(rows), headers, cols)

\* [err, rows]: err is the exception raised, "" when none.
extraer_movimientos_desde_archivo(df_raw) ==
    LET movimientos(header_row, headers, cols, error) ==
            IF error # "" THEN [err |-> error, rows |-> <<>>]
            ELSE [ err |-> "",
                   rows |-> filas_itau(SubSeq(df_raw, header_row + 1, Len(df_raw)),
                                       headers, cols) ]
        with_cols(header_row, headers, cols) ==
            movimientos(header_row, headers, cols, columnas_error(cols))
        with_header(header_row) ==
            IF header_row = 0 THEN [err |-> "HeaderNotFound", rows |-> <<>>]
            ELSE with_cols(header_row, df_raw[header_row], columnas_itau(df_raw[header_row]))
    IN  with_header(encontrar_fila_header(df_raw))

(***************************************************************************)
(* procesar_movimiento_brou.py: helpers                                    *)
(***************************************************************************)
parse_importe_brou(value) ==
    LET number(f) == IF f = <<>> THEN 0 ELSE f[1]
        parse(s) ==
            IF s = <<>> THEN 0
            ELSE number(SignedFloat(IF StartsWith(s, <<"-">>) THEN -1 ELSE 1,
                                    Replace(Remove(Remove(s, "-"), "."), ",", ".")))
    IN  IF isna(value) THEN 0 ELSE parse(Strip(CellStr(value)))

parse_fecha_texto_brou(fecha_val) ==
    LET parse(fecha_str) ==
            IF fecha_str = <<>> THEN <<>>
            ELSE FormattedOr(FirstFormat(fecha_str, TRUE), fecha_str)
    IN  IF fecha_val.t = "dt" THEN strftime_dmy(fecha_val.d)
        ELSE parse(Strip(CellStr(fecha_val)))

\* The window of detectar_moneda_detalle.
MonedaRows == 15

MonedaCols == 10

detectar_moneda_detalle(df_raw) ==
    IF \E i \in 1..Min(MonedaRows, Len(df_raw)) :
          \E j \in 1..Min(MonedaCols, Len(df_raw[i])) :
              /\ ~isna(df_raw[i][j])
              /\ LET txt == Upper(CellStr(df_raw[i][j]))
                 IN  Contains(txt, K_DOLAR_acento) \/ Contains(txt, K_DOLAR)
                       \/ Contains(txt, K_USD)
    THEN "DOLARES" ELSE "PESOS"

\* header_row_index, 0-based.
HeaderRowIndex == 17

fila_brou(row, headers, cols) ==
    LET desc_of(desc_val) == IF ~isna(desc_val) THEN Strip(CellStr(desc_val)) ELSE <<>>
        emit(fecha_txt, desc_txt, desc_upper, creditos, debitos) ==
            IF fecha_txt = <<>> \/ desc_txt = <<>> THEN <<>>
            ELSE IF Contains(desc_upper, K_SALDO_ANTERIOR)
                    \/ Contains(desc_upper, K_SALDO_FINAL)
            THEN <<>>
            ELSE IF creditos = 0 /\ debitos = 0 /\ desc_txt = <<>> THEN <<>>
            ELSE <<Registro(fecha_txt, desc_txt, creditos, debitos)>>
        amounts(fecha_txt, desc_txt, importe) ==
            emit(fecha_txt, desc_txt, Upper(desc_txt),
                 IF cols.importe # NoCol
                 THEN (IF importe < 0 THEN -importe ELSE 0)
                 ELSE (IF cols.credito # NoCol
                       THEN parse_importe_brou(RowGet(row, headers, cols.credito, Num(0)))
                       ELSE 0),
                 IF cols.importe # NoCol
                 THEN (IF importe < 0 THEN 0 ELSE importe)
                 ELSE (IF cols.debito # NoCol
                       THEN parse_importe_brou(RowGet(row, headers, cols.debito, Num(0)))
                       ELSE 0))
    IN  amounts(parse_fecha_texto_brou(RowGet(row, headers, cols.fecha, NaN)),
                desc_of(RowGet(row, headers, cols.desc, Str(<<>>))),
                parse_importe_brou(RowGet(row, headers, cols.importe, Num(0))))

RECURSIVE filas_brou(_, _, _)
filas_brou(rows, headers, cols) ==
    IF rows = <<>> THEN <<>>
    ELSE fila_brou(Head(rows), headers, cols) \o filas_brou(Tail(rows), headers, cols)

\* [err, rows]: err is the exception raised, "" when none.
extraer_movimientos(df_raw) ==
    LET movimientos(headers, cols, error) ==
            IF error # "" THEN [err |-> error, rows |-> <<>>]
            ELSE [ err |-> "",
                   rows |-> filas_brou(SubSeq(df_raw, HeaderRowIndex + 2, Len(df_raw)),
                                       headers, cols) ]
        with_cols(headers, cols) == movimientos(headers, cols, columnas_error(cols))
    IN  IF HeaderRowIndex >= Len(df_raw) THEN [err |-> "TooFewRows", rows |-> <<>>]
        ELSE with_cols(df_raw[HeaderRowIndex + 1], columnas_brou(df_raw[HeaderRowIndex + 1]))

(***************************************************************************)
(* generar_excels.py: helpers                                              *)
(***************************************************************************)
parse_importe_gen(value) ==
    LET number(f) == IF f = <<>> THEN 0 ELSE f[1]
        parse(s) ==
            IF s = <<>> THEN 0
            ELSE number(SignedFloat(IF StartsWith(s, <<"-">>) THEN -1 ELSE 1,
                                    Replace(Remove(Remove(s, "-"), "."), ",", ".")))
    IN  IF isna(value) THEN 0 ELSE parse(Strip(CellStr(value)))

parse_fecha_texto_gen(fecha_val) ==
    LET parse(fecha_str) ==
            IF fecha_str = <<>> THEN <<>>
            ELSE FormattedOr(FirstFormat(fecha_str, FALSE), fecha_str)
    IN  parse(Strip(CellStr(fecha_val)))

\* One row of the table of construir_tabla.
tabla_fila(r) ==
    LET fila(x) == Registro(parse_fecha_texto_gen(r.Fecha), CellStr(r.Nombre),
                            IF x < 0 THEN -x ELSE 0, IF x > 0 THEN x ELSE 0)
    IN  fila(parse_importe_gen(r.Importe))

\* The table of the rows that have both Fecha and Nombre.
construir_tabla(df) ==
    LET tabla(kept) == [i \in 1..Len(kept) |-> tabla_fila(kept[i])]
    IN  tabla(SelectSeq(df, LAMBDA r : ~isna(r.Fecha) /\ ~isna(r.Nombre)))

K_RECIBO_DE_PAGO ==
    <<"R", "E", "C", "I", "B", "O", " ", "D", "E", " ", "P", "A", "G", "O">>

\* The rows of the CSV of one currency, receipts of payment left out.
filas_moneda(df, moneda) ==
    SelectSeq(df, LAMBDA r :
        /\ ~(~isna(r.Nombre) /\ Contains(CellStr(r.Nombre), K_RECIBO_DE_PAGO))
        /\ r.Moneda = moneda)

(***************************************************************************)
(* The exchange rate.                                                      *)
(***************************************************************************)
\* solicitar_cotizacion_manual on one line of input: "retry" when the loop
\* prompts again, else the value returned, <<>> for None.
entrada_manual(line) ==
    LET answer(f) == IF f = <<>> THEN [retry |-> TRUE, value |-> <<>>]
                     ELSE [retry |-> FALSE, value |-> f]
        typed(valor) == IF valor = <<>> THEN [retry |-> FALSE, value |-> <<>>]
                        ELSE answer(PyFloat(Replace(valor, ",", ".")))
    IN  typed(Strip(line))

\* lru_cache: whether the call is answered from the cache.
cache_has(memo, key) == key \in DOMAIN memo

(***************************************************************************)
(* Inputs.                                                                 *)
(***************************************************************************)
SeqUpTo(S, n) == UNION {[1..k -> S] : k \in 0..n}

SubsetsUpTo(S, n) == {T \in SUBSET S : Cardinality(T) <= n}

RECURSIVE SetToSeq(_)
\* The elements of a finite set, listed once each.
SetToSeq(S) ==
    IF S = {} THEN <<>>
    ELSE LET x == CHOOSE y \in S : TRUE IN <<x>> \o SetToSeq(S \ {x})

T_10_03_2024 == <<"1", "0", "/", "0", "3", "/", "2", "0", "2", "4">>

T_11_03_2024 == <<"1", "1", "/", "0", "3", "/", "2", "0", "2", "4">>

T_2024_03_10 == <<"2", "0", "2", "4", "-", "0", "3", "-", "1", "0">>

T_na == <<"n", "/", "a">>

T_fa_b == <<"f", "á", " ", " ", "b">>

T_FA_B == <<"F", "A", " ", "B">>

T_fab == <<"f", "a", "b">>

Row(f, d, c, b) == [Fecha |-> f, Descripcion |-> d, Creditos |-> c, Debitos |-> b]

\* Rows of a written movements table.
RecordSamples ==
    { Row(Str(T_10_03_2024), Str(T_fa_b), Num(450300), Num(0)),
      Row(Str(T_2024_03_10), Str(T_FA_B), Num(450304), NaN),
      Row(Str(T_11_03_2024), Str(T_FA_B), Num(450300), Num(0)),
      Row(Str(T_10_03_2024), Str(T_fab), Num(450300), Num(0)),
      Row(Str(T_10_03_2024), Str(T_FA_B), Num(0), Num(450300)),
      Row(Str(T_na), Str(T_FA_B), Num(450300), Num(0)),
      Row(Str(T_10_03_2024), NaN, Num(450300), Num(0)),
      Row(Dt(<<2024, 3, 10>>), Str(T_FA_B), Num(450310), Num(0)) }

\* Keys of an arbitrary keyset, some with a null date or an empty description.
KeySamples ==
    { <<<<2024, 3, 10>>, T_FA_B, 450300>>,
      <<<<2024, 3, 11>>, T_FA_B, 450300>>,
      <<<<2024, 3, 10>>, <<"F", "A", "B">>, 450300>>,
      <<<<2024, 3, 10>>, T_FA_B, -450300>>,
      <<<<>>, T_FA_B, 450300>>,
      <<<<2024, 3, 10>>, <<>>, 450300>> }

RefRow(f, d, c, i) == [Fecha |-> f, Descripcion |-> d, Cuenta |-> c, Importe |-> i]

\* Rows of the reference ledger.
LedgerSamples ==
    { RefRow(Dt(<<2024, 3, 10>>), Str(T_fa_b), ACCOUNT_FILES[1], Num(450300)),
      RefRow(Str(T_na), Str(T_FA_B), ACCOUNT_FILES[1], Num(450300)),
      RefRow(Dt(<<2024, 3, 10>>), Str(T_fab), ACCOUNT_FILES[2], Num(450300)),
      RefRow(Str(T_11_03_2024), Str(T_FA_B), ACCOUNT_FILES[1], NaN),
      RefRow(Dt(<<2024, 3, 10>>), Str(<<" ">>), ACCOUNT_FILES[2], Str(<<"4", "5", "0", ".", "3">>)) }

R_match == Row(Str(T_10_03_2024), Str(T_fa_b), Num(450300), Num(0))

R_nodate == Row(Str(T_na), Str(T_FA_B), Num(450300), Num(0))

R_nodesc == Row(Str(T_10_03_2024), Str(<<" ">>), Num(450300), Num(0))

NoResult == [filtered |-> <<>>, removed |-> 0]

\* A file that does not exist.
Missing == [exists |-> FALSE, rows |-> <<>>]

File(rows) == [exists |-> TRUE, rows |-> rows]

\* Account files of a reconciliation run.
FileSamples ==
    { Missing,
      File(<<>>),
      File(<<R_match>>),
      File(<<R_nodate, R_match>>),
      File(<<R_match, R_nodesc, R_match>>),
      File(<<R_nodate, R_match, R_nodesc>>),
      File(<<R_nodesc, R_nodate>>) }

FilterIdle ==
    /\ records = <<>> /\ keyset = {} /\ result = NoResult /\ again = NoResult
    /\ fpc = "idle"

ReconcileIdle ==
    /\ ledger = <<>> /\ orig = <<>> /\ files = <<>> /\ keys_by_account = <<>>
    /\ cur = 0 /\ removed_by = <<>> /\ total_removed = 0 /\ rpc = "idle"

RolesIdle == header_cells = <<>> /\ searched = "idle" /\ col_roles = <<>>

ImporteIdle == importe_cell = <<>> /\ importe_by = "idle" /\ importe_out = 0

DescIdle == desc_cell = <<>> /\ desc_once = <<>> /\ desc_twice = <<>> /\ dpc = "idle"

ExtractIdle == sheet = <<>> /\ extractor = "idle" /\ emitted = <<>>

UnitsIdle == ImporteIdle /\ DescIdle /\ ExtractIdle

PipelineIdle ==
    /\ prog = "idle" /\ archivos = <<>> /\ pc = "idle" /\ idx = 0
    /\ registros = <<>> /\ outputs = <<>> /\ cache = <<>> /\ fetches = <<>>
    /\ resolves = <<>> /\ pend = <<>> /\ err = "" /\ reads = <<>>

(***************************************************************************)
(* filter_dataframe on arbitrary records and keysets, applied twice.       *)
(***************************************************************************)
InitFilter ==
    /\ records \in SeqUpTo(RecordSamples, MaxRecs)
    /\ keyset \in SubsetsUpTo(KeySamples, MaxKeys)
    /\ result = NoResult /\ again = NoResult
    /\ fpc = "start"
    /\ ReconcileIdle
    /\ PipelineIdle
    /\ RolesIdle
    /\ UnitsIdle

Filter ==
    /\ fpc = "start"
    /\ result' = filter_dataframe(records, keyset)
    /\ fpc' = "filtered"
    /\ UNCHANGED <<records, keyset, again, rvars, pvars, cvars, uvars>>

Refilter ==
    /\ fpc = "filtered"
    /\ again' = filter_dataframe(result.filtered, keyset)
    /\ fpc' = "refiltered"
    /\ UNCHANGED <<records, keyset, result, rvars, pvars, cvars, uvars>>

NextFilter == Filter \/ Refilter

SpecFilter == InitFilter /\ [][NextFilter]_vars

(***************************************************************************)
(* process_files                                                           *)
(***************************************************************************)
InitReconcile ==
    /\ ledger \in {SetToSeq(T) : T \in SubsetsUpTo(LedgerSamples, MaxRef)}
    /\ orig \in [AccountNames -> FileSamples]
    /\ files = orig
    /\ keys_by_account = <<>>
    /\ cur = 0
    /\ removed_by = [c \in AccountNames |-> 0]
    /\ total_removed = 0
    /\ rpc = "start"
    /\ FilterIdle
    /\ PipelineIdle
    /\ RolesIdle
    /\ UnitsIdle

\* keys_by_account = load_comprobante_keys()
LoadKeys ==
    /\ rpc = "start"
    /\ keys_by_account' = load_comprobante_keys(ledger)
    /\ cur' = 1
    /\ rpc' = "loop"
    /\ UNCHANGED <<ledger, orig, files, removed_by, total_removed, fvars, pvars, cvars, uvars>>

\* One iteration of the loop over ACCOUNT_FILES.
ProcessAccount ==
    /\ rpc = "loop"
    /\ cur <= Len(ACCOUNT_FILES)
    /\ LET cuenta == ACCOUNT_FILES[cur]
           keys == keys_of(keys_by_account, cuenta)
           res == filter_dataframe(files[cuenta].rows, keys)
       IN  IF ~files[cuenta].exists \/ keys = {}
           THEN UNCHANGED <<files, removed_by, total_removed>>
           ELSE /\ files' = IF res.removed # 0
                            THEN [files EXCEPT ![cuenta] = File(res.filtered)]
                            ELSE files
                /\ removed_by' = [removed_by EXCEPT ![cuenta] = res.removed]
                /\ total_removed' = total_removed + res.removed
    /\ cur' = cur + 1
    /\ UNCHANGED <<ledger, orig, keys_by_account, rpc, fvars, pvars, cvars, uvars>>

\* The loop is over: the total is reported.
Report ==
    /\ rpc = "loop"
    /\ cur > Len(ACCOUNT_FILES)
    /\ rpc' = "done"
    /\ UNCHANGED <<ledger, orig, files, keys_by_account, cur, removed_by, total_removed, fvars, pvars, cvars, uvars>>

NextReconcile == LoadKeys \/ ProcessAccount \/ Report

SpecReconcile == InitReconcile /\ [][NextReconcile]_vars


(***************************************************************************)
(* Input files of the three programs.                                      *)
(***************************************************************************)
T_Fecha == <<"F", "e", "c", "h", "a">>

T_Concepto == <<"C", "o", "n", "c", "e", "p", "t", "o">>

T_Descripcion == <<"D", "e", "s", "c", "r", "i", "p", "c", "i", "ó", "n">>

T_Detalle == <<"D", "e", "t", "a", "l", "l", "e">>

T_Importe == <<"I", "m", "p", "o", "r", "t", "e">>

T_Debito == <<"D", "é", "b", "i", "t", "o">>

T_Credito == <<"C", "r", "é", "d", "i", "t", "o">>

T_Dolares == <<"D", "ó", "l", "a", "r", "e", "s">>

T_Pesos == <<"P", "e", "s", "o", "s">>

T_10_03_24 == <<"1", "0", "/", "0", "3", "/", "2", "4">>

T_12_03_2024 == <<"1", "2", "/", "0", "3", "/", "2", "0", "2", "4">>

T_sf == <<"s", "/", "f">>

T_Cafe == <<"C", "a", "f", "e">>

T_Pan == <<"P", "a", "n">>

T_Luz == <<"L", "u", "z">>

\* A row filled with NaN up to n columns.
Pad(row, n) == row \o [i \in 1..(n - Len(row)) |-> NaN]

PadAll(rows, n) == [i \in 1..Len(rows) |-> Pad(rows[i], n)]

\* An Itau statement: four rows of preamble with the account in the second,
\* the currency in cell [4, 5], then the header and the movements.
ItauGrid(cuenta, moneda, header, data) ==
    << Pad(<<>>, 6), Pad(<<cuenta>>, 6), Pad(<<>>, 6), Pad(<<>>, 6),
       <<NaN, NaN, NaN, NaN, NaN, moneda>> >>
      \o <<Pad(header, 6)>> \o PadAll(data, 6)

\* The statements, named in sorted order of their paths.
ItauFileIds == <<"a", "b", "c", "d", "e", "f", "g">>

ItauFile(id) ==
    CASE id = "a" ->
           [ name |-> <<"a", "_", "1", "1", "7", "1", "5", "6", "4">>,
             grid |-> ItauGrid(NaN, Str(T_Dolares),
                        <<Str(T_Fecha), Str(T_Concepto), Str(T_Debito), Str(T_Credito)>>,
                        << <<Str(T_10_03_24), Str(T_Cafe), Num(12500), NaN>>,
                           <<Dt(<<2024, 3, 11>>), Str(T_Pan), NaN, Str(<<"3", ".", "5">>)>> >>) ]
      [] id = "b" ->
           [ name |-> <<"b", "_", "1", "0", "6", "4", "6", "0", "5">>,
             grid |-> ItauGrid(NaN, Str(<<"U", "S", "D">>),
                        <<Str(T_Fecha), Str(T_Descripcion), Str(T_Importe)>>,
                        << <<Str(T_10_03_2024), Str(T_Luz), Num(-5000)>>,
                           <<NaN, Str(K_SALDO_FINAL), Num(9000)>> >>) ]
      [] id = "c" ->
           [ name |-> <<"c">>,
             grid |-> ItauGrid(Str(<<"N", " ", "1", "0", "6", "4", "5", "9", "7">>),
                        Str(T_Pesos),
                        <<Str(T_Fecha), Str(T_Detalle), Str(T_Importe)>>,
                        << <<Str(T_12_03_2024), Str(T_Pan), Num(7000)>> >>) ]
      [] id = "d" ->
           [ name |-> <<"d">>,
             grid |-> ItauGrid(NaN, Str(T_Pesos),
                        <<Str(<<"D", "a", "t", "e">>), Str(T_Concepto), Str(T_Importe)>>,
                        << <<Str(T_12_03_2024), Str(T_Pan), Num(7000)>> >>) ]
      [] id = "e" ->
           [ name |-> <<"e">>,
             grid |-> ItauGrid(NaN, Str(T_Dolares),
                        <<Str(T_Fecha), Str(T_Concepto), Str(T_Importe)>>,
                        << <<Str(T_sf), Str(T_Cafe), Str(<<"x">>)>>,
                           <<Str(T_10_03_2024), Str(T_Luz), Num(1500)>> >>) ]
      [] id = "f" ->
           [ name |-> <<"f", "_", "1", "1", "7", "1", "5", "6", "4">>,
             grid |-> ItauGrid(NaN, Str(T_Pesos),
                        <<Str(T_Fecha), Str(T_Concepto), Str(T_Importe)>>,
                        << <<NaN, NaN, NaN>> >>) ]
      [] id = "g" ->
           [ name |-> <<"g">>,
             grid |-> ItauGrid(NaN, Str(T_Pesos),
                        <<Str(T_Fecha), Str(T_Importe)>>,
                        << <<Str(T_12_03_2024), Num(7000)>> >>) ]

\* A BROU statement: seventeen rows of preamble with the currency in the
\* third, the header in row 18, then the movements.
BrouGrid(moneda, header, data) ==
    [i \in 1..HeaderRowIndex |-> IF i = 3 THEN Pad(<<moneda>>, 4) ELSE Pad(<<>>, 4)]
      \o <<Pad(header, 4)>> \o PadAll(data, 4)

BrouFileIds == {"p", "u", "x", "s", "n"}

BrouFile(id) ==
    CASE id = "p" ->
           BrouGrid(Str(T_Pesos),
             <<Str(T_Fecha), Str(T_Descripcion), Str(T_Debito), Str(T_Credito)>>,
             << <<Str(T_10_03_2024), Str(T_Luz),
                  Str(<<"1", ".", "2", "3", "4", ",", "5", "6">>), NaN>> >>)
      [] id = "u" ->
           BrouGrid(Str(<<"U", "S", "D">>),
             <<Str(T_Fecha), Str(T_Concepto), Str(T_Importe)>>,
             << <<Str(T_10_03_2024), Str(T_Cafe), Str(<<"-", "1", "5", ",", "6", "8">>)>>,
                <<Str(T_11_03_2024), Str(T_Pan), Str(<<"3", ",", "0", "0">>)>>,
                <<Str(T_10_03_24), Str(T_Luz), Str(<<"1", ",", "0", "0">>)>> >>)
      [] id = "x" ->
           BrouGrid(Str(T_Dolares),
             <<Str(T_Fecha), Str(T_Concepto), Str(T_Importe)>>,
             << <<Str(T_10_03_2024), Str(T_Cafe), Str(<<"2", ",", "0", "0">>)>>,
                <<Str(T_sf), Str(T_Pan), Str(<<"x">>)>> >>)
      [] id = "s" ->
           << Pad(<<Str(T_Pesos)>>, 4),
              <<Str(T_Fecha), Str(T_Concepto), Str(T_Importe), NaN>>,
              <<Str(T_10_03_2024), Str(T_Cafe), Num(2000), NaN>> >>
      [] id = "n" ->
           BrouGrid(Str(T_Dolares),
             <<Str(T_Fecha), Str(T_Concepto), Str(T_Importe)>>,
             << <<NaN, NaN, NaN>> >>)

Mov(f, n, i, m) == [Fecha |-> f, Nombre |-> n, Importe |-> i, Moneda |-> m]

GenFileIds == {"m", "q", "z"}

\* The rows of movimientos.csv.
GenFile(id) ==
    CASE id = "m" ->
           << Mov(Str(T_10_03_24), Str(T_Cafe), Str(<<"-", "1", "5", ",", "6", "8">>), "Dólares"),
              Mov(Str(T_11_03_2024), Str(T_Pan),
                  Str(<<"1", ".", "3", "0", "0", ",", "0", "0">>), "Pesos"),
              Mov(Str(T_12_03_2024), Str(T_Luz), Str(<<"2", ",", "0", "0">>), "Dólares"),
              Mov(Str(T_12_03_2024), Str(K_RECIBO_DE_PAGO), Str(<<"9">>), "Dólares") >>
      [] id = "q" ->
           << Mov(Str(T_11_03_2024), Str(T_Pan), Str(<<"7", ",", "5">>), "Pesos") >>
      [] id = "z" ->
           << Mov(NaN, Str(T_Cafe), Str(<<"2", ",", "0", "0">>), "Dólares") >>

\* What the rate service answers: <<>> is any failure of the request.
FetchResults == {<<>>, <<39500>>, <<41200>>}

\* Lines typed at the prompt.
PromptSamples ==
    {<<>>, <<"x">>, <<"4", "1", ",", "2">>, <<"3", "9", ".", "5">>}

(***************************************************************************)
(* The three main().  A resolution of the rate is one call of              *)
(* get_usd_rate_uyu together with the manual entry that may follow it.     *)
(***************************************************************************)
\* df["Cotizacion"] = cot
WithCot(rows, cot) ==
    [i \in 1..Len(rows) |->
        [ Fecha |-> rows[i].Fecha, Descripcion |-> rows[i].Descripcion,
          Creditos |-> rows[i].Creditos, Debitos |-> rows[i].Debitos,
          Cotizacion |-> cot ]]

\* A column of rates that repeats the rate of the first row.
WithCotsOfFirstRow(rows, cots) == WithCot(rows, cots[1])

\* df["Cotizacion"] = df["Fecha"].apply(...): one value per row.
WithCots(rows, cots) ==
    [i \in 1..Len(rows) |->
        [ Fecha |-> rows[i].Fecha, Descripcion |-> rows[i].Descripcion,
          Creditos |-> rows[i].Creditos, Debitos |-> rows[i].Debitos,
          Cotizacion |-> cots[i] ]]

\* A workbook written by to_excel.
Out(file, owner, moneda, rows) ==
    [file |-> file, owner |-> owner, moneda |-> moneda, rows |-> rows]

\* memo with key bound to v.
Put(memo, key, v) == [k \in DOMAIN memo \cup {key} |-> IF k = key THEN v ELSE memo[k]]

\* The return value of get_usd_rate_uyu of procesar_estados_itau.py and of
\* generar_excels.py for an answer of the service: None on any failure.
get_usd_rate_uyu_itau(answer) == answer

\* The return value of get_usd_rate_uyu of procesar_movimiento_brou.py: 0.0
\* on any failure.
get_usd_rate_uyu_brou(answer) == IF answer = <<>> THEN <<0>> ELSE answer

\* registros_por_titular.setdefault(titular, ...)[moneda].append(df_mov),
\* the frames of a currency kept concatenated.
AddBatch(regs, titular, moneda, rows) ==
    LET hit == {i \in 1..Len(regs) : regs[i].titular = titular}
        add(reg) == IF moneda = "PESOS"
                    THEN [reg EXCEPT !.PESOS = @ \o rows]
                    ELSE [reg EXCEPT !.DOLARES = @ \o rows]
        fresh == [titular |-> titular, PESOS |-> <<>>, DOLARES |-> <<>>]
    IN  IF hit = {} THEN Append(regs, add(fresh))
        ELSE [i \in 1..Len(regs) |-> IF i \in hit THEN add(regs[i]) ELSE regs[i]]

\* What main() of procesar_estados_itau.py learns of each statement.
ItauRead ==
    [id \in {ItauFileIds[i] : i \in 1..Len(ItauFileIds)} |->
        [ moneda |-> detectar_moneda(ItauFile(id).grid),
          titular |-> detectar_titular_archivo(ItauFile(id).name, ItauFile(id).grid),
          mov |-> extraer_movimientos_desde_archivo(ItauFile(id).grid) ]]

\* What main() of procesar_movimiento_brou.py learns of the statement.
BrouRead ==
    [id \in BrouFileIds |->
        [ moneda |-> detectar_moneda_detalle(BrouFile(id)),
          mov |-> extraer_movimientos(BrouFile(id)) ]]

\* The two tables of main() of generar_excels.py.
GenRead ==
    [id \in GenFileIds |->
        [ pesos |-> construir_tabla(filas_moneda(GenFile(id), "Pesos")),
          hay_dolares |-> filas_moneda(GenFile(id), "Dólares") # <<>>,
          dolares |-> construir_tabla(filas_moneda(GenFile(id), "Dólares")) ]]

\* The elements of seq at the indices of T, in order.
Pick(seq, T) == SelectSeq([i \in 1..Len(seq) |-> IF i \in T THEN <<seq[i]>> ELSE <<>>],
                          LAMBDA x : x # <<>>)

Sorted(seq, T) ==
    LET unwrap(picked) == [i \in 1..Len(picked) |-> picked[i][1]]
    IN  unwrap(Pick(seq, T))

Resolution(p, batch, key, rate, source, fetch, prompted) ==
    [ prog |-> p, batch |-> batch, key |-> key, rate |-> rate, source |-> source,
      fetch |-> fetch, prompted |-> prompted ]

InitPipeline ==
    /\ reads = [itau |-> ItauRead, brou |-> BrouRead, gen |-> GenRead]
    /\ prog \in {"itau", "brou", "gen"}
    /\ archivos \in
         CASE prog = "itau" ->
                {Sorted(ItauFileIds, T) : T \in SubsetsUpTo(1..Len(ItauFileIds), MaxFiles)}
           [] prog = "brou" -> {<<>>} \cup {<<id>> : id \in BrouFileIds}
           [] prog = "gen" -> {<<id>> : id \in GenFileIds}
    /\ pc = IF prog = "itau" THEN "files" ELSE "start"
    /\ idx = 1
    /\ registros = <<>> /\ outputs = <<>> /\ cache = <<>> /\ fetches = <<>>
    /\ resolves = <<>> /\ pend = <<>> /\ err = ""
    /\ FilterIdle /\ ReconcileIdle /\ RolesIdle /\ UnitsIdle

\* procesar_estados_itau.py, one iteration of the loop over archivos: an
\* exception of the extraction leaves main().
ItauFileStep ==
    /\ prog = "itau" /\ pc = "files" /\ idx <= Len(archivos)
    /\ LET f == reads.itau[archivos[idx]]
       IN  IF f.mov.err # ""
           THEN /\ pc' = "crashed" /\ err' = f.mov.err
                /\ UNCHANGED <<idx, registros>>
           ELSE /\ idx' = idx + 1
                /\ registros' = IF f.mov.rows = <<>> THEN registros
                                ELSE AddBatch(registros, f.titular, f.moneda, f.mov.rows)
                /\ UNCHANGED <<pc, err>>
    /\ UNCHANGED <<reads, prog, archivos, outputs, cache, fetches, resolves, pend, fvars, rvars, cvars, uvars>>

\* The loop over archivos is over; idx then counts the owners.
ItauFilesDone ==
    /\ prog = "itau" /\ pc = "files" /\ idx > Len(archivos)
    /\ pc' = IF registros = <<>> THEN "done" ELSE "titular"
    /\ idx' = 1
    /\ UNCHANGED <<reads, prog, archivos, registros, outputs, cache, fetches, resolves, pend, err,
                   fvars, rvars, cvars, uvars>>

\* One iteration of the loop over registros_por_titular, up to the answer of
\* get_usd_rate_uyu: the workbook in pesos, then that in dollars unless the
\* rate is None.
ItauTitular ==
    /\ prog = "itau" /\ pc = "titular" /\ idx <= Len(registros)
    /\ LET reg == registros[idx]
           outP == IF reg.PESOS # <<>>
                   THEN Append(outputs, Out("itau_debito_pesos", reg.titular, "PESOS",
                                            WithCot(reg.PESOS, 0)))
                   ELSE outputs
           key == reg.DOLARES[1].Fecha
           hit == cache_has(cache, key)
       IN  IF reg.DOLARES = <<>>
           THEN /\ outputs' = outP /\ idx' = idx + 1
                /\ UNCHANGED <<pc, cache, fetches, resolves, pend>>
           ELSE \E answer \in FetchResults :
                  LET v == IF hit THEN cache[key] ELSE get_usd_rate_uyu_itau(answer)
                      how == IF hit THEN "hit" ELSE IF answer = <<>> THEN "failed" ELSE "ok"
                  IN  /\ cache' = IF hit THEN cache ELSE Put(cache, key, v)
                      /\ fetches' = IF hit THEN fetches ELSE Append(fetches, key)
                      /\ IF v = <<>>
                         THEN /\ pc' = "prompt"
                              /\ pend' = [key |-> key, fetch |-> how, lines |-> 0]
                              /\ outputs' = outP
                              /\ UNCHANGED <<idx, resolves>>
                         ELSE /\ outputs' = Append(outP, Out("itau_debito_dolares", reg.titular,
                                                   "DOLARES", WithCot(reg.DOLARES, v[1])))
                              /\ resolves' = Append(resolves,
                                    Resolution("itau", reg.titular, key, v[1], "api", how, FALSE))
                              /\ idx' = idx + 1
                              /\ UNCHANGED <<pc, pend>>
    /\ UNCHANGED <<reads, prog, archivos, registros, err, fvars, rvars, cvars, uvars>>

\* solicitar_cotizacion_manual reads one line; a line that is no number asks
\* again.
ItauPrompt ==
    /\ prog = "itau" /\ pc = "prompt"
    /\ \E line \in PromptSamples :
          LET r == entrada_manual(line)
              rate == IF r.value = <<>> THEN 0 ELSE r.value[1]
              reg == registros[idx]
          IN  IF r.retry
              THEN /\ pend.lines < MaxPrompts
                   /\ pend' = [pend EXCEPT !.lines = @ + 1]
                   /\ UNCHANGED <<pc, idx, outputs, resolves>>
              ELSE /\ outputs' = Append(outputs, Out("itau_debito_dolares", reg.titular,
                                        "DOLARES", WithCot(reg.DOLARES, rate)))
                   /\ resolves' = Append(resolves,
                         Resolution("itau", reg.titular, pend.key, rate,
                                    IF r.value = <<>> THEN "default" ELSE "manual",
                                    pend.fetch, TRUE))
                   /\ idx' = idx + 1 /\ pc' = "titular" /\ pend' = <<>>
    /\ UNCHANGED <<reads, prog, archivos, registros, cache, fetches, err, fvars, rvars, cvars, uvars>>

ItauEnd ==
    /\ prog = "itau" /\ pc = "titular" /\ idx > Len(registros)
    /\ pc' = "done"
    /\ UNCHANGED <<reads, prog, archivos, idx, registros, outputs, cache, fetches, resolves, pend,
                   err, fvars, rvars, cvars, uvars>>

\* procesar_movimiento_brou.py up to the column of rates: a statement in
\* pesos is written at once.
BrouStart ==
    /\ prog = "brou" /\ pc = "start"
    /\ IF archivos = <<>>
       THEN pc' = "done" /\ UNCHANGED <<registros, outputs, err>>
       ELSE LET f == reads.brou[archivos[1]]
            IN  IF f.mov.err # ""
                THEN pc' = "crashed" /\ err' = f.mov.err /\ UNCHANGED <<registros, outputs>>
                ELSE IF f.mov.rows = <<>>
                THEN pc' = "done" /\ UNCHANGED <<registros, outputs, err>>
                ELSE IF f.moneda = "DOLARES"
                THEN /\ pc' = "rates"
                     /\ registros' = <<[titular |-> "", PESOS |-> <<>>, DOLARES |-> f.mov.rows]>>
                     /\ UNCHANGED <<outputs, err>>
                ELSE /\ pc' = "done"
                     /\ outputs' = <<Out("brou_detalle_movimientos", "", "PESOS",
                                         WithCot(f.mov.rows, 0))>>
                     /\ UNCHANGED <<registros, err>>
    /\ UNCHANGED <<reads, prog, archivos, idx, cache, fetches, resolves, pend, fvars, rvars, cvars, uvars>>

\* get_usd_rate_uyu applied to the Fecha of one row: strptime is outside the
\* try, so a text that is no DD/MM/YYYY date raises ValueError.
BrouRate ==
    /\ prog = "brou" /\ pc = "rates" /\ idx <= Len(registros[1].DOLARES)
    /\ LET key == registros[1].DOLARES[idx].Fecha
           hit == cache_has(cache, key)
       IN  IF strptime_dmy4(key) = <<>>
           THEN /\ pc' = "crashed" /\ err' = "ValueError"
                /\ UNCHANGED <<idx, cache, fetches, resolves, pend>>
           ELSE \E answer \in FetchResults :
                  LET v == IF hit THEN cache[key] ELSE get_usd_rate_uyu_brou(answer)
                      how == IF hit THEN "hit" ELSE IF answer = <<>> THEN "failed" ELSE "ok"
                  IN  /\ cache' = IF hit THEN cache ELSE Put(cache, key, v)
                      /\ fetches' = IF hit THEN fetches ELSE Append(fetches, key)
                      /\ pend' = Append(pend, v[1])
                      /\ resolves' = Append(resolves,
                            Resolution("brou", "", key, v[1],
                                       IF how = "failed" THEN "default" ELSE "api", how, FALSE))
                      /\ idx' = idx + 1
                      /\ UNCHANGED <<pc, err>>
    /\ UNCHANGED <<reads, prog, archivos, registros, outputs, fvars, rvars, cvars, uvars>>

\* Every row has its rate: the workbook is written.
BrouWrite ==
    /\ prog = "brou" /\ pc = "rates" /\ idx > Len(registros[1].DOLARES)
    /\ outputs' = <<Out("brou_detalle_movimientos", "", "DOLARES",
                        WithCots(registros[1].DOLARES, pend))>>
    /\ pc' = "done"
    /\ UNCHANGED <<reads, prog, archivos, idx, registros, cache, fetches, resolves, pend, err,
                   fvars, rvars, cvars, uvars>>

\* generar_excels.py up to the answer of get_usd_rate_uyu: the workbook in
\* pesos is always written; iloc[0] of an empty table raises IndexError.
GenStart ==
    /\ prog = "gen" /\ pc = "start"
    /\ LET f == reads.gen[archivos[1]]
           outP == <<Out("movimientos_pesos", "", "PESOS", WithCot(f.pesos, 0))>>
           key == f.dolares[1].Fecha
       IN  IF ~f.hay_dolares
           THEN /\ pc' = "done" /\ outputs' = outP
                /\ UNCHANGED <<registros, cache, fetches, resolves, pend, err>>
           ELSE IF f.dolares = <<>>
           THEN /\ pc' = "crashed" /\ err' = "IndexError" /\ outputs' = outP
                /\ UNCHANGED <<registros, cache, fetches, resolves, pend>>
           ELSE \E answer \in FetchResults :
                  LET v == get_usd_rate_uyu_itau(answer)
                      how == IF answer = <<>> THEN "failed" ELSE "ok"
                  IN  /\ registros' = <<[titular |-> "", PESOS |-> f.pesos,
                                         DOLARES |-> f.dolares]>>
                      /\ cache' = Put(cache, key, v)
                      /\ fetches' = Append(fetches, key)
                      /\ err' = err
                      /\ IF v = <<>>
                         THEN /\ pc' = "prompt"
                              /\ pend' = [key |-> key, fetch |-> how, lines |-> 0]
                              /\ outputs' = outP
                              /\ UNCHANGED resolves
                         ELSE /\ pc' = "done"
                              /\ outputs' = Append(outP, Out("movimientos_dolares", "",
                                                   "DOLARES", WithCot(f.dolares, v[1])))
                              /\ resolves' = Append(resolves,
                                    Resolution("gen", "", key, v[1], "api", how, FALSE))
                              /\ UNCHANGED pend
    /\ UNCHANGED <<reads, prog, archivos, idx, fvars, rvars, cvars, uvars>>

GenPrompt ==
    /\ prog = "gen" /\ pc = "prompt"
    /\ \E line \in PromptSamples :
          LET r == entrada_manual(line)
              rate == IF r.value = <<>> THEN 0 ELSE r.value[1]
          IN  IF r.retry
              THEN /\ pend.lines < MaxPrompts
                   /\ pend' = [pend EXCEPT !.lines = @ + 1]
                   /\ UNCHANGED <<pc, outputs, resolves>>
              ELSE /\ outputs' = Append(outputs, Out("movimientos_dolares", "", "DOLARES",
                                        WithCot(registros[1].DOLARES, rate)))
                   /\ resolves' = Append(resolves,
                         Resolution("gen", "", pend.key, rate,
                                    IF r.value = <<>> THEN "default" ELSE "manual",
                                    pend.fetch, TRUE))
                   /\ pc' = "done" /\ pend' = <<>>
    /\ UNCHANGED <<reads, prog, archivos, idx, registros, cache, fetches, err, fvars, rvars, cvars, uvars>>

NextPipeline ==
    \/ ItauFileStep \/ ItauFilesDone \/ ItauTitular \/ ItauPrompt \/ ItauEnd
    \/ BrouStart \/ BrouRate \/ BrouWrite
    \/ GenStart \/ GenPrompt

SpecPipeline == InitPipeline /\ [][NextPipeline]_vars

(***************************************************************************)
(* The column search of the two extractions on arbitrary header rows.      *)
(***************************************************************************)
T_Monto == <<"M", "o", "n", "t", "o">>

T_Importe_debito == <<"I", "m", "p", "o", "r", "t", "e", " ", "d", "é", "b", "i", "t", "o">>

\* Labels of header cells.
LabelSamples ==
    { Str(T_Fecha), Str(T_Concepto), Str(T_Detalle), Str(T_Importe), Str(T_Monto),
      Str(T_Debito), Str(T_Credito), Str(T_Importe_debito) }

InitRoles ==
    /\ header_cells \in SeqUpTo(LabelSamples, MaxCols)
    /\ searched = "none"
    /\ col_roles = <<>>
    /\ FilterIdle /\ ReconcileIdle /\ PipelineIdle /\ UnitsIdle

\* The column search of extraer_movimientos_desde_archivo.
ColumnasItau ==
    /\ searched = "none"
    /\ col_roles' = columnas_itau(header_cells)
    /\ searched' = "itau"
    /\ UNCHANGED <<header_cells, fvars, rvars, pvars, uvars>>

\* The column search of extraer_movimientos.
ColumnasBrou ==
    /\ searched = "none"
    /\ col_roles' = columnas_brou(header_cells)
    /\ searched' = "brou"
    /\ UNCHANGED <<header_cells, fvars, rvars, pvars, uvars>>

NextRoles == ColumnasItau \/ ColumnasBrou

SpecRoles == InitRoles /\ [][NextRoles]_vars

(***************************************************************************)
(* parse_importe of the three programs on arbitrary cells.                 *)
(***************************************************************************)
ImporteSigns == { <<>>, <<"-">> }

ImporteWholes ==
    { <<"0">>, <<"1", "5">>, <<"1", "2", "3", "4">>, <<"1", ".", "2", "3", "4">> }

ImporteFractions == { <<>>, <<",", "6", "8">>, <<",", "5">>, <<".", "5", "6">> }

\* Cells of an amount column: texts with and without separators, bare or
\* between blanks, texts that are no number, empty cells, numbers (in
\* thousandths) with up to three decimals.
ImporteSamples ==
    { Str(g \o w \o f) : g \in ImporteSigns, w \in ImporteWholes, f \in ImporteFractions }
      \cup { Str(<<" ">> \o g \o w \o f \o <<" ">>) :
               g \in ImporteSigns, w \in ImporteWholes, f \in ImporteFractions }
      \cup { NaN, Str(<<>>), Str(<<" ">>), Str(<<"a", "b", "c">>), Str(<<"-">>),
             Str(<<"1", "2", "-", "3">>) }
      \cup { Num(n) : n \in {0, 12500, 100000, 1234560, 1234567, -15680, -2005} }

InitImporte ==
    /\ importe_cell \in ImporteSamples
    /\ importe_by = "none"
    /\ importe_out = 0
    /\ DescIdle /\ ExtractIdle
    /\ FilterIdle /\ ReconcileIdle /\ PipelineIdle /\ RolesIdle

ParseImporteItau ==
    /\ importe_by = "none"
    /\ importe_out' = parse_importe_itau(importe_cell)
    /\ importe_by' = "itau"
    /\ UNCHANGED <<importe_cell, desc_cell, desc_once, desc_twice, dpc,
                   sheet, extractor, emitted, fvars, rvars, pvars, cvars>>

ParseImporteBrou ==
    /\ importe_by = "none"
    /\ importe_out' = parse_importe_brou(importe_cell)
    /\ importe_by' = "brou"
    /\ UNCHANGED <<importe_cell, desc_cell, desc_once, desc_twice, dpc,
                   sheet, extractor, emitted, fvars, rvars, pvars, cvars>>

ParseImporteGen ==
    /\ importe_by = "none"
    /\ importe_out' = parse_importe_gen(importe_cell)
    /\ importe_by' = "gen"
    /\ UNCHANGED <<importe_cell, desc_cell, desc_once, desc_twice, dpc,
                   sheet, extractor, emitted, fvars, rvars, pvars, cvars>>

NextImporte == ParseImporteItau \/ ParseImporteBrou \/ ParseImporteGen

SpecImporte == InitImporte /\ [][NextImporte]_vars

(***************************************************************************)
(* normalize_description applied to its own result.                        *)
(***************************************************************************)
\* Characters of descriptions: blanks, letters of both cases, an accented
\* letter, and two characters whose decomposition is longer than one letter.
DescChars == { " ", "NBSP", "a", "é", "B", "¨", "FI_LIGATURE" }

\* Description cells: texts, the empty cell, a number.
DescSamples == { Str(t) : t \in SeqUpTo(DescChars, MaxText) } \cup { NaN, Num(12500) }

InitDescription ==
    /\ desc_cell \in DescSamples
    /\ desc_once = <<>> /\ desc_twice = <<>>
    /\ dpc = "start"
    /\ ImporteIdle /\ ExtractIdle
    /\ FilterIdle /\ ReconcileIdle /\ PipelineIdle /\ RolesIdle

Normalize ==
    /\ dpc = "start"
    /\ desc_once' = normalize_description(desc_cell)
    /\ dpc' = "once"
    /\ UNCHANGED <<desc_cell, desc_twice, importe_cell, importe_by, importe_out,
                   sheet, extractor, emitted, fvars, rvars, pvars, cvars>>

Renormalize ==
    /\ dpc = "once"
    /\ desc_twice' = normalize_description(Str(desc_once))
    /\ dpc' = "twice"
    /\ UNCHANGED <<desc_cell, desc_once, importe_cell, importe_by, importe_out,
                   sheet, extractor, emitted, fvars, rvars, pvars, cvars>>

NextDescription == Normalize \/ Renormalize

SpecDescription == InitDescription /\ [][NextDescription]_vars

(***************************************************************************)
(* The row loop of the two extractions on arbitrary sheets.  A sheet has   *)
(* its header in row 18, a row that reads like a movement right above it   *)
(* and up to MaxRows rows below it.                                        *)
(***************************************************************************)
T_Saldo_final == <<"S", "a", "l", "d", "o", " ", "f", "i", "n", "a", "l">>

T_09_03_2024 == <<"0", "9", "/", "0", "3", "/", "2", "0", "2", "4">>

\* Rows under a header with one amount column: Fecha, Concepto, Importe.
ImporteRows ==
    { <<f, c, i, NaN>> :
        f \in {Str(T_10_03_2024), NaN},
        c \in {Str(T_Pan), NaN, Str(T_Saldo_final)},
        i \in {Num(7000), Num(-5000), NaN} }

\* Rows under a header with two amount columns: Fecha, Concepto, Débito,
\* Crédito.
DebitoCreditoRows ==
    { <<f, c, d, h>> :
        f \in {Str(T_10_03_2024), NaN},
        c \in {Str(T_Pan), NaN},
        d \in {NaN, Num(12500), Str(<<"-", "5">>)},
        h \in {NaN, Num(3500)} }

SheetOf(header, data) ==
    [i \in 1..HeaderRowIndex |->
        IF i = HeaderRowIndex
        THEN <<Str(T_09_03_2024), Str(T_Luz), Num(1000), Num(2000)>>
        ELSE Pad(<<>>, 4)]
      \o <<Pad(header, 4)>> \o data

InitExtract ==
    /\ \/ \E data \in SeqUpTo(ImporteRows, MaxRows) :
             sheet = SheetOf(<<Str(T_Fecha), Str(T_Concepto), Str(T_Importe)>>, data)
       \/ \E data \in SeqUpTo(DebitoCreditoRows, MaxRows) :
             sheet = SheetOf(<<Str(T_Fecha), Str(T_Concepto), Str(T_Debito), Str(T_Credito)>>,
                             data)
    /\ extractor = "none"
    /\ emitted = <<>>
    /\ ImporteIdle /\ DescIdle
    /\ FilterIdle /\ ReconcileIdle /\ PipelineIdle /\ RolesIdle

\* extraer_movimientos_desde_archivo of procesar_estados_itau.py
ExtractItau ==
    /\ extractor = "none"
    /\ emitted' = extraer_movimientos_desde_archivo(sheet)
    /\ extractor' = "itau"
    /\ UNCHANGED <<sheet, importe_cell, importe_by, importe_out,
                   desc_cell, desc_once, desc_twice, dpc, fvars, rvars, pvars, cvars>>

\* extraer_movimientos of procesar_movimiento_brou.py
ExtractBrou ==
    /\ extractor = "none"
    /\ emitted' = extraer_movimientos(sheet)
    /\ extractor' = "brou"
    /\ UNCHANGED <<sheet, importe_cell, importe_by, importe_out,
                   desc_cell, desc_once, desc_twice, dpc, fvars, rvars, pvars, cvars>>

NextExtract == ExtractItau \/ ExtractBrou

SpecExtract == InitExtract /\ [][NextExtract]_vars

(***************************************************************************)
(* Properties of the reconciliation.                                       *)
(***************************************************************************)
\* How many times row r occurs in table df.
Count(df, r) == Cardinality({i \in 1..Len(df) : df[i] = r})

\* The canonical triple of a source row, as the specification states it.
TripleOf(r) ==
    << normalize_date(r.Fecha),
       normalize_description(r.Descripcion),
       round2(fillna0(r.Creditos) - fillna0(r.Debitos)) >>

Matchable(r) == TripleOf(r)[1] # <<>> /\ TripleOf(r)[2] # <<>>

\* C1: a record whose date and description canonicalize to non-empty values
\* is removed by filter exactly when its triple (canonical date, canonical
\* description, credit - debit rounded to cents) is a member of the keyset;
\* a record that differs from every key in one field is kept.
FilterRemovesExactlyTheMembers ==
    fpc \in {"filtered", "refiltered"} =>
        \A i \in 1..Len(records) :
            LET r == records[i] IN
            Matchable(r) =>
                IF TripleOf(r) \in keyset
                THEN Count(result.filtered, r) = 0
                ELSE Count(result.filtered, r) = Count(records, r)

\* C1 witness: of two matchable records one is removed, and the other, which
\* shares two fields with a key of the keyset, is kept.
FilterRemovesOneKeepsNearMiss ==
    /\ fpc = "filtered"
    /\ Len(records) = 2
    /\ Matchable(records[1]) /\ Matchable(records[2])
    /\ result.removed = 1
    /\ \E i \in 1..2 :
          /\ result.filtered = <<records[i]>>
          /\ \E k \in keyset :
                Cardinality({f \in 1..3 : k[f] = TripleOf(records[i])[f]}) = 2

\* C3: filtering the kept records again with the same keyset returns them
\* unchanged and removes none.
FilterIsIdempotent ==
    fpc = "refiltered" =>
        /\ again.filtered = result.filtered
        /\ again.removed = 0

\* C3 witness: the first pass removed a record and kept another, and the
\* second pass has run.
RefilteredAfterARemoval ==
    /\ fpc = "refiltered"
    /\ result.removed > 0
    /\ result.filtered # <<>>

\* The canonical triple of a reference row.
RefTripleOf(row) ==
    << normalize_date(row.Fecha),
       normalize_description(row.Descripcion),
       normalize_amount(row.Importe) >>

\* C2: in a reconciliation run a record whose date canonicalizes to null or
\* whose description canonicalizes to empty is never removed, and no built
\* keyset holds a key with a null date or an empty description.
UnmatchableRecordsAreKept ==
    rpc # "idle" =>
        /\ \A c \in AccountNames :
              \A i \in 1..Len(orig[c].rows) :
                  LET r == orig[c].rows[i] IN
                  ~Matchable(r) => Count(files[c].rows, r) = Count(orig[c].rows, r)
        /\ \A c \in DOMAIN keys_by_account :
              \A k \in keys_by_account[c] : k[1] # <<>> /\ k[2] # <<>>

\* C2 witness: a file lost a record to the filter while it holds a record with
\* a null date, and the ledger has a row of that account, with a date that
\* does not parse, whose description and amount are those of that record.
UnmatchableRecordBesideARemoval ==
    /\ rpc = "done"
    /\ \E c \in AccountNames :
          /\ removed_by[c] > 0
          /\ \E i \in 1..Len(orig[c].rows) :
                LET r == orig[c].rows[i] IN
                /\ TripleOf(r)[1] = <<>>
                /\ Count(files[c].rows, r) > 0
                /\ \E j \in 1..Len(ledger) :
                      /\ ledger[j].Cuenta = c
                      /\ RefTripleOf(ledger[j]) = TripleOf(r)

\* C4: a record is removed from an account's file only if a reference row of
\* that same account has its triple.
AccountIsolation ==
    rpc # "idle" =>
        \A c \in AccountNames :
            \A i \in 1..Len(orig[c].rows) :
                LET r == orig[c].rows[i] IN
                Count(files[c].rows, r) < Count(orig[c].rows, r) =>
                    \E j \in 1..Len(ledger) :
                        /\ ledger[j].Cuenta = c
                        /\ RefTripleOf(ledger[j]) = TripleOf(r)

\* C4 witness: an account's file was filtered against its own non-empty keyset
\* and still holds a record whose triple is a key of another account only.
OtherAccountsKeyIsNotApplied ==
    /\ rpc = "done"
    /\ \E a, b \in AccountNames :
          /\ a # b
          /\ files[b].exists
          /\ keys_of(keys_by_account, b) # {}
          /\ \E i \in 1..Len(files[b].rows) :
                /\ TripleOf(files[b].rows[i]) \in keys_of(keys_by_account, a)
                /\ TripleOf(files[b].rows[i]) \notin keys_of(keys_by_account, b)

\* The keys the reference ledger gives an account: the triples of its rows
\* of that account that miss no column and have a date and a description.
RefKeys(c) ==
    { RefTripleOf(ledger[j]) :
        j \in { i \in 1..Len(ledger) :
                  /\ ledger[i].Cuenta = c
                  /\ ~isna(ledger[i].Fecha) /\ ~isna(ledger[i].Descripcion)
                  /\ ~isna(ledger[i].Importe)
                  /\ RefTripleOf(ledger[i])[1] # <<>>
                  /\ RefTripleOf(ledger[i])[2] # <<>> } }

\* The records of an account's file as it was that match no key of the
\* account, in their order.
KeptOf(c) == SelectSeq(orig[c].rows, LAMBDA r : TripleOf(r) \notin RefKeys(c))

RECURSIVE RemovedUpTo(_)
\* The sum of the removed counts of the first n accounts.
RemovedUpTo(n) ==
    IF n = 0 THEN 0 ELSE RemovedUpTo(n - 1) + removed_by[ACCOUNT_FILES[n]]

\* C15: once the run has gone through an account, its file is as it was when
\* it is missing, when the ledger has no key for the account or when none of
\* its records matches; else it holds exactly the kept records in their
\* order, and removed + kept = read.  A file the run has not reached is as it
\* was, and the total is the sum of the removed counts of the accounts.
FilesAreLeftOrRewrittenWithTheKept ==
    rpc \in {"loop", "done"} =>
        /\ \A n \in 1..Len(ACCOUNT_FILES) :
              LET c == ACCOUNT_FILES[n] IN
              IF n >= cur THEN files[c] = orig[c] /\ removed_by[c] = 0
              ELSE IF ~orig[c].exists \/ RefKeys(c) = {} \/ KeptOf(c) = orig[c].rows
              THEN files[c] = orig[c] /\ removed_by[c] = 0
              ELSE /\ files[c] = File(KeptOf(c))
                   /\ removed_by[c] > 0
                   /\ removed_by[c] + Len(files[c].rows) = Len(orig[c].rows)
        /\ total_removed = RemovedUpTo(Len(ACCOUNT_FILES))

\* C15 witness: the run is over; one file was rewritten with its two kept
\* records, the one before and the one after the record removed, and the
\* file of another account is missing.
RewrittenWithTwoKeptBesideAMissingFile ==
    /\ rpc = "done"
    /\ total_removed = 1
    /\ \E a, b \in AccountNames :
          /\ a # b
          /\ orig[a].rows = <<R_nodate, R_match, R_nodesc>>
          /\ files[a].rows = <<R_nodate, R_nodesc>>
          /\ removed_by[a] = 1
          /\ ~orig[b].exists /\ files[b] = orig[b]

(***************************************************************************)
(* Properties of the exchange rate and of the three main().                *)
(***************************************************************************)
\* C5: whenever the fetch of a rate fails the manual prompt is invoked, and
\* the rate is then the number typed, or the default 0.0 after an empty line;
\* when the fetch succeeds the prompt is not invoked and the rate is the one
\* fetched.
FetchFailureAlwaysPrompts ==
    \A i \in 1..Len(resolves) :
        /\ resolves[i].fetch = "failed" =>
              resolves[i].prompted /\ resolves[i].source \in {"manual", "default"}
        /\ resolves[i].fetch = "ok" =>
              ~resolves[i].prompted /\ resolves[i].source = "api"

\* C6: once a key has been resolved, a later resolution of that key returns
\* the rate of the first one and fetches nothing.
LaterResolveReturnsTheSameRate ==
    \A i, j \in 1..Len(resolves) :
        (i < j /\ resolves[i].key = resolves[j].key) =>
            /\ resolves[j].fetch = "hit"
            /\ resolves[j].rate = resolves[i].rate

\* C6 witness: two owners' batches in dollars begin on the same date; the
\* fetch failed for the first, and the second, answered from the cache, was
\* given another rate at the prompt.
SecondPromptGaveAnotherRate ==
    \E i, j \in 1..Len(resolves) :
        /\ i < j
        /\ resolves[i].key = resolves[j].key
        /\ resolves[i].fetch = "failed"
        /\ resolves[j].fetch = "hit"
        /\ resolves[j].prompted
        /\ resolves[j].rate # resolves[i].rate

\* Whether every row of a workbook carries the rate cot.
AllCarry(rows, cot) == \A i \in 1..Len(rows) : rows[i].Cotizacion = cot

\* The resolutions made for the batch of a workbook.
ResolutionsOf(p, owner) ==
    {i \in 1..Len(resolves) : resolves[i].prog = p /\ resolves[i].batch = owner}

Extractable ==
    {i \in 1..Len(archivos) :
        reads.itau[archivos[i]].mov.err = "" /\ reads.itau[archivos[i]].mov.rows # <<>>}

\* C8: when one statement of a run of procesar_estados_itau.py has no cell
\* with "fecha" and the others extract, the run ends with a workbook for the
\* owner and currency of each of the others.
HeaderNotFoundSparesTheOthers ==
    ( /\ prog = "itau"
      /\ Cardinality({i \in 1..Len(archivos) :
                         reads.itau[archivos[i]].mov.err = "HeaderNotFound"}) = 1
      /\ \A i \in 1..Len(archivos) :
            reads.itau[archivos[i]].mov.err \in {"", "HeaderNotFound"}
      /\ pc \in {"done", "crashed"} ) =>
        \A i \in Extractable :
            \E k \in 1..Len(outputs) :
                /\ outputs[k].owner = reads.itau[archivos[i]].titular
                /\ outputs[k].moneda = reads.itau[archivos[i]].moneda

\* C9: a date or an amount that does not parse never ends a run: no run
\* ends by the ValueError of a conversion.
CellParseFailuresAreSoft == ~(pc = "crashed" /\ err = "ValueError")

(***************************************************************************)
(* Properties of the column search.                                        *)
(***************************************************************************)
RoleNames == {"fecha", "desc", "importe", "debito", "credito"}

\* The keywords of each role, as the specification lists them.
KeywordsOf(role) ==
    CASE role = "fecha" -> {K_fecha}
      [] role = "desc" -> KW_desc
      [] role = "importe" -> {K_importe, K_monto}
      [] role = "debito" -> KW_debito
      [] role = "credito" -> KW_credito

\* The index of the column a label reads, 0 for None.
ColumnOf(col) ==
    IF col = NoCol THEN 0 ELSE First({i \in 1..Len(header_cells) : header_cells[i] = col})

\* The index of the leftmost header cell whose lowercased label contains a
\* keyword of the role, 0 when none does.
Leftmost(role) ==
    LET idx_of(hit) == IF hit = {} THEN 0 ELSE First(hit)
    IN  idx_of({i \in 1..Len(header_cells) :
                  ContainsAny(LowLabel(header_cells[i]), KeywordsOf(role))})

\* C10: every role is given the leftmost header cell whose lowercased label
\* contains one of its keywords, and no column is given to two roles.
ColumnRolesAreLeftmostAndDisjoint ==
    searched \in {"itau", "brou"} =>
        /\ \A role \in RoleNames : ColumnOf(col_roles[role]) = Leftmost(role)
        /\ \A r1, r2 \in RoleNames :
              (r1 # r2 /\ ColumnOf(col_roles[r1]) # 0) =>
                  ColumnOf(col_roles[r1]) # ColumnOf(col_roles[r2])


(***************************************************************************)
(* Properties of parse_importe.                                            *)
(***************************************************************************)
\* An amount text without its leading sign.
Unsigned(s) == IF StartsWith(s, <<"-">>) THEN Tail(s) ELSE s

\* The part of an unsigned amount text before the decimal comma.
WholeOf(b) ==
    LET upto(p) == IF p = <<>> THEN b ELSE SubSeq(b, 1, p[1] - 1)
    IN  upto(PositionsFrom(b, ",", 1))

\* The part of an unsigned amount text after the decimal comma.
DecimalsOf(b) ==
    LET from(p) == IF p = <<>> THEN <<>> ELSE SubSeq(b, p[1] + 1, Len(b))
    IN  from(PositionsFrom(b, ",", 1))

\* Digits, bare or in groups of three separated by '.'.
Grouped(w) ==
    \/ AllDigits(w)
    \/ /\ w # <<>> /\ w[1] # "."
       /\ \A i \in 1..Len(w) :
            IF (Len(w) - i + 1) % 4 = 0 THEN w[i] = "." ELSE w[i] \in Digits

\* A text in the notation of the statements: an optional leading '-',
\* digits with '.' between the thousands, an optional ',' and decimals.
DenotesAmount(s) ==
    /\ Len(PositionsFrom(s, ",", 1)) <= 1
    /\ Grouped(WholeOf(Unsigned(s)))
    /\ PositionsFrom(s, ",", 1) # <<>> =>
         AllDigits(DecimalsOf(Unsigned(s))) /\ Len(DecimalsOf(Unsigned(s))) <= 3

\* The number such a text denotes, in thousandths.
AmountDenoted(s) ==
    LET magnitude(w, f) ==
            1000 * DigitsVal(Remove(w, ".")) + DigitsVal(SubSeq(f \o <<"0", "0", "0">>, 1, 3))
        signed(neg, m) == IF neg THEN -m ELSE m
    IN  signed(StartsWith(s, <<"-">>),
               magnitude(WholeOf(Unsigned(s)), DecimalsOf(Unsigned(s))))

\* C11: whichever program's parse_importe ran, a number cell gave the number
\* rounded to 2 decimals, a text in the notation of the statements ('.'
\* between thousands, ',' before the decimals, an optional leading '-') gave
\* the number it denotes, and an empty cell, an empty or blank text and a
\* text without any digit gave 0.
ImporteIsTheNumberDenoted ==
    importe_by \in {"itau", "brou", "gen"} =>
        CASE importe_cell.t = "num" -> importe_out = round2(importe_cell.n)
          [] importe_cell.t = "str" /\ DenotesAmount(Strip(importe_cell.s)) ->
               importe_out = round2(AmountDenoted(Strip(importe_cell.s)))
          [] importe_cell.t = "str" /\ \A i \in 1..Len(importe_cell.s) :
                                          importe_cell.s[i] \notin Digits ->
               importe_out = 0
          [] importe_cell.t = "nan" -> importe_out = 0
          [] OTHER -> TRUE


(***************************************************************************)
(* Properties of normalize_description.                                    *)
(***************************************************************************)
\* C12: normalize_description applied to its own result returns that result.
DescriptionIsIdempotent == dpc = "twice" => desc_twice = desc_once

\* C12 witness: a text with an accented letter, both cases and a run of
\* blanks was normalized twice.
NormalizedTwiceAnAccentedSpacedText ==
    /\ dpc = "twice"
    /\ desc_cell = Str(<<"é", " ", "NBSP", "B">>)
    /\ desc_once = <<"E", " ", "B">>


(***************************************************************************)
(* Properties of the extraction.                                           *)
(***************************************************************************)
\* The rows of the sheet strictly below its header.
RowsBelowHeader == SubSeq(sheet, HeaderRowIndex + 2, Len(sheet))

\* The sheet has a single amount column.
SingleAmount == sheet[HeaderRowIndex + 1][3] = Str(T_Importe)

\* An empty or missing cell.
EmptyCell(c) == isna(c) \/ (c.t = "str" /\ Strip(c.s) = <<>>)

\* The trimmed text of a description cell.
TrimmedText(c) == IF EmptyCell(c) THEN <<>> ELSE Strip(CellStr(c))

\* The amount the running program reads in a cell.
AmountRead(c) ==
    IF extractor = "itau" THEN parse_importe_itau(c) ELSE parse_importe_brou(c)

\* The date text the running program shows for a cell.
DateShown(c) ==
    IF extractor = "itau" THEN parse_fecha_texto_itau(c) ELSE parse_fecha_texto_brou(c)

\* Credit and debit of a row, by the column mode of the sheet.
CreditOf(row) ==
    IF SingleAmount
    THEN (IF AmountRead(row[3]) < 0 THEN -AmountRead(row[3]) ELSE 0)
    ELSE AmountRead(row[4])

DebitOf(row) ==
    IF SingleAmount
    THEN (IF AmountRead(row[3]) < 0 THEN 0 ELSE AmountRead(row[3]))
    ELSE AmountRead(row[3])

\* The three conditions under which a row is a record.
IsRecord(row) ==
    /\ ~EmptyCell(row[1])
    /\ ~Contains(Upper(TrimmedText(row[2])), K_SALDO_ANTERIOR)
    /\ ~Contains(Upper(TrimmedText(row[2])), K_SALDO_FINAL)
    /\ ~(CreditOf(row) = 0 /\ DebitOf(row) = 0 /\ TrimmedText(row[2]) = <<>>)

RECURSIVE RecordsOf(_)
\* The records of the rows that are records, in the order of the rows.
RecordsOf(rows) ==
    IF rows = <<>> THEN <<>>
    ELSE (IF IsRecord(Head(rows))
          THEN <<Registro(DateShown(Head(rows)[1]), TrimmedText(Head(rows)[2]),
                          CreditOf(Head(rows)), DebitOf(Head(rows)))>>
          ELSE <<>>) \o RecordsOf(Tail(rows))

\* C13: an extraction emits a record for exactly the rows strictly below the
\* header that have a non-empty date cell, a description containing neither
\* "SALDO ANTERIOR" nor "SALDO FINAL", and not both zero amounts and an empty
\* description; nothing for the rows at or above the header.
EmitsExactlyTheRecords ==
    extractor \in {"itau", "brou"} =>
        emitted.err = "" /\ emitted.rows = RecordsOf(RowsBelowHeader)

\* C14: every record emitted has credit >= 0 and debit >= 0.
CreditAndDebitAreNonNegative ==
    extractor \in {"itau", "brou"} =>
        \A k \in 1..Len(emitted.rows) :
            emitted.rows[k].Creditos >= 0 /\ emitted.rows[k].Debitos >= 0

=============================================================================
